---- MODULE Spec2Model ----
(***************************************************************************)
(* Model of the NamedHeader value of libsip (src/headers/named.rs): the    *)
(* Display renderer, the display-name grammar, the ;key=value parameter    *)
(* grammar and its "as many as possible" loop, and the Uri parser and      *)
(* renderer they delegate to.  Byte slices are sequences of byte values,   *)
(* Strings are the sequences of their UTF-8 bytes, Option<T> is a          *)
(* sequence of length at most one, a HashMap is the set of its             *)
(* <<key, value>> entries.                                                 *)
(***************************************************************************)
EXTENDS Integers, Sequences, FiniteSets, TLC

(* ------------------------------------------------------------------ *)
(* Bytes of the wire grammar                                          *)
(* ------------------------------------------------------------------ *)
TAB == 9
SP == 32
QUOTE == 34
DASH == 45
DOT == 46
COLON == 58
SEMI == 59
LT == 60
EQ == 61
GT == 62
AT == 64

None == << >>
Some(v) == << v >>

(* ------------------------------------------------------------------ *)
(* Lexical predicates (nom::character) and byte-slice helpers         *)
(* ------------------------------------------------------------------ *)
is_digit(c) == c >= 48 /\ c <= 57

is_alphabetic(c) == (c >= 65 /\ c <= 90) \/ (c >= 97 /\ c <= 122)

is_alphanumeric(c) == is_alphabetic(c) \/ is_digit(c)

is_space(c) == c = SP \/ c = TAB

Drop(s, n) == SubSeq(s, n + 1, Len(s))

Take(s, n) == SubSeq(s, 1, n)

IsSuffix(r, s) == Len(r) <= Len(s) /\ r = Drop(s, Len(s) - Len(r))

(* Result of a parser: Ok((rest, val)) or Err. *)
Ok(rest, val) == [ok |-> TRUE, rest |-> rest, val |-> val]

Err == [ok |-> FALSE, rest |-> << >>, val |-> << >>]

(* The bytes of a character class. *)
Alphabetic == { c \in 0..255 : is_alphabetic(c) }

Alphanumeric == { c \in 0..255 : is_alphanumeric(c) }

Space == { c \in 0..255 : is_space(c) }

Digit == { c \in 0..255 : is_digit(c) }

(* nom::bytes::complete::take_while: the longest prefix whose bytes all
   are of the class; it never fails and may be empty. *)
RunLen(cls, s) ==
  CHOOSE n \in 0..Len(s) :
     /\ \A i \in 1..n : s[i] \in cls
     /\ (n = Len(s) \/ s[n + 1] \notin cls)

take_while(cls, s) == Ok(Drop(s, RunLen(cls, s)), Take(s, RunLen(cls, s)))

(* nom::character::complete::char *)
char(c, s) == IF Len(s) > 0 /\ s[1] = c THEN Ok(Tail(s), c) ELSE Err

(* crate::parse::slice_to_string: String::from_utf8 of the slice.  Only
   bytes below 128 occur in a slice the grammar hands it. *)
slice_to_string(s) == IF \A i \in 1..Len(s) : s[i] < 128 THEN Ok(<< >>, s) ELSE Err

(* nom::combinator::opt: an error becomes None and consumes nothing. *)
opt(input, r) == IF r.ok THEN Ok(r.rest, Some(r.val)) ELSE Ok(input, None)

contains(s, c) == \E i \in 1..Len(s) : s[i] = c

(* let (input, v) = parser(input): the result of one parser step, bound
   once; f is a function over the singleton of that result. *)
bind(f) == f[CHOOSE r \in DOMAIN f : TRUE]

(* ------------------------------------------------------------------ *)
(* Parameter grammar                                                  *)
(* ------------------------------------------------------------------ *)
(* The remainder is taken before the value instead of after it. *)
parse_named_field_param_stale(input) ==
  bind([semi \in { char(SEMI, input) } |->
    IF ~semi.ok THEN Err ELSE
  bind([key \in { take_while(Alphabetic, semi.rest) } |->
  bind([eq \in { char(EQ, key.rest) } |->
    IF ~eq.ok THEN Err ELSE
  bind([value \in { take_while(Alphanumeric, eq.rest) } |->
    Ok(eq.rest, << key.val, value.val >>) ]) ]) ]) ])

(* The key is required to be non-empty. *)
parse_named_field_param_key1(input) ==
  bind([semi \in { char(SEMI, input) } |->
    IF ~semi.ok THEN Err ELSE
  bind([key \in { take_while(Alphabetic, semi.rest) } |->
    IF Len(key.val) = 0 THEN Err ELSE
  bind([eq \in { char(EQ, key.rest) } |->
    IF ~eq.ok THEN Err ELSE
  bind([value \in { take_while(Alphanumeric, eq.rest) } |->
    Ok(value.rest, << key.val, value.val >>) ]) ]) ]) ])

(* The '=' is optional. *)
parse_named_field_param_opteq(input) ==
  bind([semi \in { char(SEMI, input) } |->
    IF ~semi.ok THEN Err ELSE
  bind([key \in { take_while(Alphabetic, semi.rest) } |->
  bind([eq \in { opt(key.rest, char(EQ, key.rest)) } |->
  bind([value \in { take_while(Alphanumeric, eq.rest) } |->
    Ok(value.rest, << key.val, value.val >>) ]) ]) ]) ])

parse_named_field_param(input) ==
  bind([semi \in { char(SEMI, input) } |->
    IF ~semi.ok THEN Err ELSE
  bind([key \in { take_while(Alphabetic, semi.rest) } |->
  bind([keyS \in { slice_to_string(key.val) } |->
    IF ~keyS.ok THEN Err ELSE
  bind([eq \in { char(EQ, key.rest) } |->
    IF ~eq.ok THEN Err ELSE
  bind([value \in { take_while(Alphanumeric, eq.rest) } |->
  bind([valueS \in { slice_to_string(value.val) } |->
    IF ~valueS.ok THEN Err ELSE
    Ok(value.rest, << keyS.val, valueS.val >>) ]) ]) ]) ]) ]) ])

(* The entry of a key already present is kept. *)
insert_keep(map, key, value) ==
  IF \E e \in map : e[1] = key THEN map ELSE map \cup { << key, value >> }

(* HashMap::insert: the entry of the key is replaced. *)
insert(map, key, value) == { e \in map : e[1] # key } \cup { << key, value >> }

(* ------------------------------------------------------------------ *)
(* Uri model, renderer and parser (crate::uri)                        *)
(* ------------------------------------------------------------------ *)
SipTag == << 115, 105, 112 >>

TransportKey == << 116, 114, 97, 110, 115, 112, 111, 114, 116 >>

(* Transport variants and their wire names UDP, TCP, TLS, SCTP. *)
TransportName(t) ==
  CASE t = "Udp" -> << 85, 68, 80 >>
    [] t = "Tcp" -> << 84, 67, 80 >>
    [] t = "Tls" -> << 84, 76, 83 >>
    [] t = "Sctp" -> << 83, 67, 84, 80 >>

Transports == { "Udp", "Tcp", "Tls", "Sctp" }

ParamTransport(t) == [kind |-> "Transport", transport |-> t]

ParamOther(key, value) == [kind |-> "Other", key |-> key, value |-> value]

ParamKey(p) == IF p.kind = "Transport" THEN TransportKey ELSE p.key

ParamValue(p) == IF p.kind = "Transport" THEN TransportName(p.transport) ELSE p.value

UriAuth(username, password) == [username |-> username, password |-> password]

Domain(name, port) == [kind |-> "Domain", name |-> name, port |-> port]

Ipv4(addr, port) == [kind |-> "Ipv4", addr |-> addr, port |-> port]

UriOf(auth, host, parameters) ==
  [schema |-> "Sip", auth |-> auth, host |-> host, parameters |-> parameters]

RECURSIVE DecStr(_)
(* Decimal text of a natural number, as {} of an integer prints it. *)
DecStr(n) == IF n < 10 THEN << 48 + n >> ELSE Append(DecStr(n \div 10), 48 + (n % 10))

RECURSIVE DecVal(_)
(* Value of a run of decimal digits. *)
DecVal(s) == IF Len(s) = 0 THEN 0 ELSE 10 * DecVal(Take(s, Len(s) - 1)) + (s[Len(s)] - 48)

(* str::parse of a digit run into an unsigned integer of the given
   maximum: an empty run or a value out of range is an error. *)
parse_number(s, max) ==
  IF Len(s) = 0 \/ Len(s) > 6 \/ DecVal(s) > max THEN Err ELSE Ok(<< >>, DecVal(s))

to_upper(c) == IF c >= 97 /\ c <= 122 THEN c - 32 ELSE c

UpperCase(s) == [i \in 1..Len(s) |-> to_upper(s[i])]

RECURSIVE Flatten(_)
Flatten(ss) == IF Len(ss) = 0 THEN << >> ELSE Head(ss) \o Flatten(Tail(ss))

(* The iteration orders of a collection: every enumeration of its entries. *)
Orders(S) ==
  { f \in [1..Cardinality(S) -> S] : \A i, j \in 1..Cardinality(S) : f[i] = f[j] => i = j }

RenderPort(port) == IF port = None THEN << >> ELSE << COLON >> \o DecStr(port[1])

RenderHost(host) ==
  IF host.kind = "Domain"
  THEN host.name \o RenderPort(host.port)
  ELSE DecStr(host.addr[1]) \o << DOT >> \o DecStr(host.addr[2]) \o << DOT >>
         \o DecStr(host.addr[3]) \o << DOT >> \o DecStr(host.addr[4])
         \o RenderPort(host.port)

RenderAuth(auth) ==
  IF auth = None THEN << >>
  ELSE auth[1].username
         \o (IF auth[1].password = None THEN << >> ELSE << COLON >> \o auth[1].password[1])
         \o << AT >>

RenderUriParam(p) == << SEMI >> \o ParamKey(p) \o << EQ >> \o ParamValue(p)

(* Display for Uri: scheme:[user[:password]@]host[:port][;key=value]*, one
   text per iteration order of the parameter collection. *)
UriDisplay(uri) ==
  { SipTag \o << COLON >> \o RenderAuth(uri.auth) \o RenderHost(uri.host)
      \o Flatten([i \in 1..Cardinality(uri.parameters) |-> RenderUriParam(o[i])])
    : o \in Orders(uri.parameters) }

tag(t, s) == IF Len(s) >= Len(t) /\ Take(s, Len(t)) = t THEN Ok(Drop(s, Len(t)), t) ELSE Err

(* Credentials prefix: user [":" password] "@". *)
parse_uriauth(input) ==
  bind([user \in { take_while(Alphanumeric, input) } |->
  bind([colon \in { char(COLON, user.rest) } |->
  bind([pass \in { IF colon.ok THEN take_while(Alphanumeric, colon.rest) ELSE Err } |->
  bind([at \in { char(AT, IF colon.ok THEN pass.rest ELSE user.rest) } |->
    IF ~at.ok THEN Err
    ELSE Ok(at.rest, UriAuth(user.val, IF colon.ok THEN Some(pass.val) ELSE None)) ]) ]) ]) ])

(* The port is read as a u8. *)
parse_port_u8(input) ==
  bind([colon \in { char(COLON, input) } |->
    IF ~colon.ok THEN Ok(input, None) ELSE
  bind([digits \in { take_while(Digit, colon.rest) } |->
  bind([n \in { parse_number(digits.val, 255) } |->
    IF n.ok THEN Ok(digits.rest, Some(n.val)) ELSE Ok(input, None) ]) ]) ])

(* Optional ":" port suffix; the cursor stays put when it does not match. *)
parse_port(input) ==
  bind([colon \in { char(COLON, input) } |->
    IF ~colon.ok THEN Ok(input, None) ELSE
  bind([digits \in { take_while(Digit, colon.rest) } |->
  bind([n \in { parse_number(digits.val, 65535) } |->
    IF n.ok THEN Ok(digits.rest, Some(n.val)) ELSE Ok(input, None) ]) ]) ])

(* One decimal octet. *)
parse_octet(input) ==
  bind([digits \in { take_while(Digit, input) } |->
  bind([n \in { parse_number(digits.val, 255) } |->
    IF n.ok THEN Ok(digits.rest, n.val) ELSE Err ]) ])

(* Numeric dotted-quad host: four decimal octets separated by ".". *)
parse_ip_domain(input) ==
  bind([a \in { parse_octet(input) } |->
    IF ~a.ok THEN Err ELSE
  bind([d1 \in { char(DOT, a.rest) } |->
    IF ~d1.ok THEN Err ELSE
  bind([b \in { parse_octet(d1.rest) } |->
    IF ~b.ok THEN Err ELSE
  bind([d2 \in { char(DOT, b.rest) } |->
    IF ~d2.ok THEN Err ELSE
  bind([c \in { parse_octet(d2.rest) } |->
    IF ~c.ok THEN Err ELSE
  bind([d3 \in { char(DOT, c.rest) } |->
    IF ~d3.ok THEN Err ELSE
  bind([d \in { parse_octet(d3.rest) } |->
    IF ~d.ok THEN Err ELSE
  bind([port \in { parse_port(d.rest) } |->
    Ok(port.rest, Ipv4(<< a.val, b.val, c.val, d.val >>, port.val)) ]) ]) ]) ]) ]) ]) ]) ])

is_domain_char(c) == is_alphanumeric(c) \/ c = DOT \/ c = DASH

DomainChar == { c \in 0..255 : is_domain_char(c) }

(* Domain-label host: a non-empty token of alphanumeric, "." and "-". *)
parse_domain_domain(input) ==
  bind([name \in { take_while(DomainChar, input) } |->
    IF Len(name.val) = 0 THEN Err ELSE
  bind([port \in { parse_port(name.rest) } |->
    Ok(port.rest, Domain(name.val, port.val)) ]) ])

(* The domain-label form is tried first. *)
parse_domain_swapped(input) ==
  bind([dom \in { parse_domain_domain(input) } |->
    IF dom.ok THEN dom ELSE parse_ip_domain(input) ])

(* Host alternation: the numeric form is tried first. *)
parse_domain(input) ==
  bind([ip \in { parse_ip_domain(input) } |->
    IF ip.ok THEN ip ELSE parse_domain_domain(input) ])

(* Typing of a parsed ;key=value pair: transport with a known value
   (compared without regard to case) is typed, all else is opaque. *)
TypedParam(key, value) ==
  IF key = TransportKey /\ \E t \in Transports : TransportName(t) = UpperCase(value)
  THEN ParamTransport(CHOOSE t \in Transports : TransportName(t) = UpperCase(value))
  ELSE ParamOther(key, value)

insert_param(params, p) == { q \in params : ParamKey(q) # ParamKey(p) } \cup { p }

RECURSIVE parse_params(_, _)
(* The URI-level parameter loop: the result holds the cursor and the
   collection once no further ;key=value matches. *)
parse_params(input, params) ==
  bind([p \in { parse_named_field_param(input) } |->
    IF p.ok
    THEN parse_params(p.rest, insert_param(params, TypedParam(p.val[1], p.val[2])))
    ELSE Ok(input, params) ])

parse_uri(input) ==
  bind([schema \in { tag(SipTag, input) } |->
    IF ~schema.ok THEN Err ELSE
  bind([colon \in { char(COLON, schema.rest) } |->
    IF ~colon.ok THEN Err ELSE
  bind([auth \in { opt(colon.rest, parse_uriauth(colon.rest)) } |->
  bind([host \in { parse_domain(auth.rest) } |->
    IF ~host.ok THEN Err ELSE
  bind([params \in { parse_params(host.rest, {}) } |->
    Ok(params.rest, UriOf(auth.val, host.val, params.val)) ]) ]) ]) ]) ])

(* ------------------------------------------------------------------ *)
(* Display-name grammar                                               *)
(* ------------------------------------------------------------------ *)
(* Quoted form: the text between a double quote and the next one. *)
parse_quoted_string(input) ==
  bind([open \in { char(QUOTE, input) } |->
    IF ~open.ok THEN Err ELSE
    IF ~contains(open.rest, QUOTE) THEN Err ELSE
  bind([n \in { CHOOSE k \in 1..Len(open.rest) :
                  open.rest[k] = QUOTE /\ ~contains(Take(open.rest, k - 1), QUOTE) } |->
  bind([out \in { slice_to_string(Take(open.rest, n - 1)) } |->
    IF ~out.ok THEN Err ELSE Ok(Drop(open.rest, n), out.val) ]) ]) ])

(* The alphabetic run is required to be non-empty. *)
parse_unquoted_string_run1(input) ==
  bind([run \in { take_while(Alphabetic, input) } |->
    IF Len(run.val) = 0 THEN Err ELSE
  bind([sp \in { char(SP, run.rest) } |->
    IF ~sp.ok THEN Err ELSE Ok(sp.rest, run.val) ]) ])

parse_unquoted_string(input) ==
  bind([run \in { take_while(Alphabetic, input) } |->
  bind([string_data \in { slice_to_string(run.val) } |->
    IF ~string_data.ok THEN Err ELSE
  bind([sp \in { char(SP, run.rest) } |->
    IF ~sp.ok THEN Err ELSE Ok(sp.rest, string_data.val) ]) ]) ])

parse_name(input) ==
  bind([q \in { parse_quoted_string(input) } |->
    IF q.ok THEN q ELSE parse_unquoted_string(input) ])

(* The '<' is mandatory. *)
parse_named_field_value_lt(input) ==
  bind([name \in { opt(input, parse_name(input)) } |->
  bind([spaces \in { opt(name.rest, take_while(Space, name.rest)) } |->
  bind([lt \in { char(LT, spaces.rest) } |->
    IF ~lt.ok THEN Err ELSE
  bind([value \in { parse_uri(lt.rest) } |->
    IF ~value.ok THEN Err ELSE
  bind([gt \in { opt(value.rest, char(GT, value.rest)) } |->
    Ok(gt.rest, << name.val, value.val >>) ]) ]) ]) ]) ])

parse_named_field_value(input) ==
  bind([name \in { opt(input, parse_name(input)) } |->
  bind([spaces \in { opt(name.rest, take_while(Space, name.rest)) } |->
  bind([lt \in { opt(spaces.rest, char(LT, spaces.rest)) } |->
  bind([value \in { parse_uri(lt.rest) } |->
    IF ~value.ok THEN Err ELSE
  bind([gt \in { opt(value.rest, char(GT, value.rest)) } |->
    Ok(gt.rest, << name.val, value.val >>) ]) ]) ]) ]) ])

(* ------------------------------------------------------------------ *)
(* NamedHeader model and renderer                                     *)
(* ------------------------------------------------------------------ *)
new(uri) == [display_name |-> None, uri |-> uri, params |-> {}]

name(self, n) == [self EXCEPT !.display_name = Some(n)]

RenderHeaderParam(e) == << SEMI >> \o e[1] \o << EQ >> \o e[2]

(* The empty display name is not told apart from other space-free ones. *)
FmtNamedHeader_noempty(self, uriText, order) ==
  (IF self.display_name # None
   THEN IF contains(self.display_name[1], SP)
        THEN << QUOTE >> \o self.display_name[1] \o << QUOTE, SP, LT >> \o uriText \o << GT >>
        ELSE self.display_name[1] \o << SP, LT >> \o uriText \o << GT >>
   ELSE uriText)
  \o Flatten([i \in 1..Len(order) |-> RenderHeaderParam(order[i])])

(* Display for NamedHeader, for one rendering of the Uri and one
   iteration order of params. *)
FmtNamedHeader(self, uriText, order) ==
  (IF self.display_name # None
   THEN IF contains(self.display_name[1], SP)
        THEN << QUOTE >> \o self.display_name[1] \o << QUOTE, SP, LT >> \o uriText \o << GT >>
        ELSE IF Len(self.display_name[1]) = 0
             THEN << QUOTE, QUOTE, SP, LT >> \o uriText \o << GT >>
             ELSE self.display_name[1] \o << SP, LT >> \o uriText \o << GT >>
   ELSE uriText)
  \o Flatten([i \in 1..Len(order) |-> RenderHeaderParam(order[i])])

(* ------------------------------------------------------------------ *)
(* Bounds and the inputs drawn from them                              *)
(* ------------------------------------------------------------------ *)
MaxLen == 5

MaxFrags == 3

MaxPre == 3

MaxHostLen == 8

MaxParams == 2

MaxLoopLen == 4

ByteSeqs(S, n) == UNION { [1..k -> S] : k \in 0..n }

RECURSIVE FragSeqs(_, _)
FragSeqs(F, n) ==
  IF n = 0 THEN { << >> } ELSE { << >> } \cup { f \o r : f \in F, r \in FragSeqs(F, n - 1) }

(* Arbitrary bytes of the parameter and display-name grammars: ; = a 1 SP " *)
RawInputs == ByteSeqs({ SEMI, EQ, 97, 49, SP, QUOTE }, MaxLen)

(* Parameter fragments, well-formed and not: ;a=1 ;a=b ;b=1 ;a= ;= ;a =1 ;1=a *)
Fragments ==
  { << SEMI, 97, EQ, 49 >>, << SEMI, 97, EQ, 98 >>, << SEMI, 98, EQ, 49 >>,
    << SEMI, 97, EQ >>, << SEMI, EQ >>, << SEMI, 97 >>, << EQ, 49 >>,
    << SEMI, 49, EQ, 97 >> }

FragInputs == FragSeqs(Fragments, MaxFrags)

(* A field value: bytes ahead of the URI, a URI text or none, bytes after. *)
UriTexts ==
  { << 115, 105, 112, COLON, 104 >>,
    << 115, 105, 112, COLON, 104, SEMI, 97, EQ, 49 >>,
    << 120 >> }

Posts ==
  { << >>, << GT >>, << GT, SEMI, 97, EQ, 49 >>, << SP >>, << SEMI, 98, EQ, 49 >>, << GT, GT >> }

ValueInputs ==
  { pre \o u \o post : pre \in ByteSeqs({ QUOTE, 97, SP, LT }, MaxPre), u \in UriTexts, post \in Posts }

(* sip: followed by host text over the bytes 3 . a *)
HostInputs == { SipTag \o << COLON >> \o h : h \in ByteSeqs({ 51, DOT, 97 }, MaxHostLen) }

Auths == { None, Some(UriAuth(<< 117 >>, None)), Some(UriAuth(<< 117 >>, Some(<< 112 >>))) }

Ports == { None, Some(8080) }

Hosts ==
  { Domain(<< 104 >>, p) : p \in Ports }
    \cup { Domain(<< 104, DOT, 99 >>, p) : p \in Ports }
    \cup { Domain(<< 49, DOT, 49, DOT, 49, DOT, 49 >>, p) : p \in Ports }
    \cup { Domain(<< 49, DOT, 49, DOT, 49, DOT, 49, DOT, 99 >>, p) : p \in Ports }
    \cup { Ipv4(<< 10, 1, 10, 1 >>, p) : p \in Ports }

UriParams == { {}, { ParamTransport("Udp") }, { ParamOther(<< 97 >>, << 49 >>) } }

(* Uri values with at most one parameter. *)
Uris == { UriOf(a, h, ps) : a \in Auths, h \in Hosts, ps \in UriParams }

(* transport values in other letter case, and a repeated key *)
TransportInputs ==
  { SipTag \o << COLON, 104, SEMI >> \o TransportKey \o << EQ >> \o v \o post :
      v \in { << 117, 100, 112 >>, << 84, 99, 112 >>, << 116, 108, 115 >>, << 115, 99, 116, 112 >>,
              << 120 >> },
      post \in { << >>, << SEMI >> \o TransportKey \o << EQ, 85, 68, 80 >>, << SEMI, 97, EQ, 49 >> } }

WireInputs ==
  RawInputs \cup FragInputs \cup ValueInputs \cup HostInputs \cup TransportInputs

DisplayNames == { None, Some(<< >>), Some(<< 97 >>), Some(<< 97, SP, 98 >>), Some(<< 97, 49 >>) }

HeaderParamSets ==
  { ps \in SUBSET { << << 97 >>, << 49 >> >>, << << 98 >>, << 50 >> >>, << << 99 >>, << 49 >> >> } :
      Cardinality(ps) <= MaxParams }

NamedHeaders ==
  { [(IF n = None THEN new(u) ELSE name(new(u), n[1])) EXCEPT !.params = ps] :
      n \in DisplayNames, u \in Uris, ps \in HeaderParamSets }

(* ------------------------------------------------------------------ *)
(* State                                                              *)
(* ------------------------------------------------------------------ *)
VARIABLES
  hdr,       \* the NamedHeader built by the caller, None when the text came off the wire
  origin,    \* "wire", "built", "rendered" (Display ran), "uri_rendered" or "uri_framed"
  text,      \* the byte slice at hand
  pc,        \* "idle", "loop" (inside parse_named_field_params) or "returned"
  call,      \* the entry point running or last returned
  arg,       \* the input slice of that call
  cur,       \* its cursor: the remaining input
  ok,        \* whether it returned Ok
  val,       \* the value it returned (that of parse_named_field_params is map)
  map,       \* the HashMap of parse_named_field_params
  consumed,  \* the ;key=value pairs that loop took, in input order
  iters,     \* its number of completed iterations
  nv         \* the value of the parse_named_field_value call that came before it

vars == << hdr, origin, text, pc, call, arg, cur, ok, val, map, consumed, iters, nv >>

InitOf(texts, headers) ==
  /\ \/ origin = "wire" /\ hdr = None /\ text \in texts
     \/ origin = "built" /\ hdr \in { Some(h) : h \in headers } /\ text = << >>
  /\ pc = "idle"
  /\ call = "none"
  /\ arg = << >>
  /\ cur = << >>
  /\ ok = FALSE
  /\ val = << >>
  /\ map = {}
  /\ consumed = << >>
  /\ iters = 0
  /\ nv = None

Init == InitOf(WireInputs, NamedHeaders)

(* format!("{}", header) *)
Display ==
  /\ origin = "built" /\ pc = "idle"
  /\ \E ut \in UriDisplay(hdr[1].uri), o \in Orders(hdr[1].params) :
       text' = FmtNamedHeader(hdr[1], ut, o)
  /\ origin' = "rendered"
  /\ UNCHANGED << hdr, pc, call, arg, cur, ok, val, map, consumed, iters, nv >>

(* format!("{}", header.uri) *)
DisplayUri ==
  /\ origin = "built" /\ pc = "idle"
  /\ text' \in UriDisplay(hdr[1].uri)
  /\ origin' = "uri_rendered"
  /\ UNCHANGED << hdr, pc, call, arg, cur, ok, val, map, consumed, iters, nv >>

(* format!("{} ", header.uri): the URI as it stands ahead of a space in a
   message, the input of the read_uri test. *)
FrameUri ==
  /\ origin = "built" /\ pc = "idle"
  /\ \E t \in UriDisplay(hdr[1].uri) : text' = t \o << SP >>
  /\ origin' = "uri_framed"
  /\ UNCHANGED << hdr, pc, call, arg, cur, ok, val, map, consumed, iters, nv >>

(* A call of a parser on the text at hand, and its return. *)
Return(fn, r) ==
  /\ origin # "built" /\ pc = "idle"
  /\ call' = fn
  /\ arg' = text
  /\ ok' = r.ok
  /\ cur' = r.rest
  /\ val' = r.val
  /\ pc' = "returned"
  /\ UNCHANGED << hdr, origin, text, map, consumed, iters, nv >>

ParseNamedFieldParam == Return("parse_named_field_param", parse_named_field_param(text))

ParseUnquotedString == Return("parse_unquoted_string", parse_unquoted_string(text))

ParseName == Return("parse_name", parse_name(text))

ParseUri == Return("parse_uri", parse_uri(text))

ParseNamedFieldValue == Return("parse_named_field_value", parse_named_field_value(text))

(* parse_named_field_params: entry, on the text at hand or on the
   remainder parse_named_field_value returned. *)
ParamsEnter ==
  /\ \/ origin # "built" /\ pc = "idle" /\ arg' = text /\ nv' = None
     \/ pc = "returned" /\ call = "parse_named_field_value" /\ ok /\ arg' = cur /\ nv' = Some(val)
  /\ call' = "parse_named_field_params"
  /\ cur' = arg'
  /\ map' = {}
  /\ consumed' = << >>
  /\ iters' = 0
  /\ ok' = FALSE
  /\ val' = << >>
  /\ pc' = "loop"
  /\ UNCHANGED << hdr, origin, text >>

(* One iteration of the while let: a parameter parsed and inserted. *)
ParamsIter ==
  /\ pc = "loop"
  /\ \E r \in { parse_named_field_param(cur) } :
       /\ r.ok
       /\ map' = insert(map, r.val[1], r.val[2])
       /\ cur' = r.rest
       /\ consumed' = Append(consumed, r.val)
  /\ iters' = iters + 1
  /\ UNCHANGED << hdr, origin, text, pc, call, arg, ok, val, nv >>

(* The first failed attempt ends the loop: Ok((input, map)). *)
ParamsReturn ==
  /\ pc = "loop"
  /\ ~parse_named_field_param(cur).ok
  /\ ok' = TRUE
  /\ pc' = "returned"
  /\ UNCHANGED << hdr, origin, text, call, arg, cur, val, map, consumed, iters, nv >>

Next ==
  \/ Display
  \/ DisplayUri
  \/ FrameUri
  \/ ParseNamedFieldParam
  \/ ParseUnquotedString
  \/ ParseName
  \/ ParseUri
  \/ ParseNamedFieldValue
  \/ ParamsEnter
  \/ ParamsIter
  \/ ParamsReturn

Spec == Init /\ [][Next]_vars

(* The parameter loop on its own, entered on the text at hand or behind
   parse_named_field_value.  The loop is sequential code: once entered it
   runs to its return. *)
LoopInputs ==
  ByteSeqs({ SEMI, EQ, 97 }, MaxLoopLen)
    \cup { pre \o u \o post : pre \in { << >>, << 97, SP, LT >> }, u \in UriTexts, post \in Posts }

LoopInit == InitOf(LoopInputs, {})

LoopNext ==
  \/ ParseNamedFieldValue
  \/ ParamsEnter
  \/ ParamsIter
  \/ ParamsReturn

LoopSpec == LoopInit /\ [][LoopNext]_vars /\ WF_vars(ParamsIter) /\ WF_vars(ParamsReturn)

TypeOK ==
  /\ pc \in { "idle", "loop", "returned" }
  /\ origin \in { "wire", "built", "rendered", "uri_rendered", "uri_framed" }
  /\ ok \in BOOLEAN
  /\ iters \in Nat

(* ------------------------------------------------------------------ *)
(* Properties                                                         *)
(* ------------------------------------------------------------------ *)
Returned(fn) == pc = "returned" /\ call = fn

(* The text of one ;key=value fragment. *)
Fragment(e) == << SEMI >> \o e[1] \o << EQ >> \o e[2]

FragmentsText(es) == Flatten([i \in 1..Len(es) |-> Fragment(es[i])])

(* s begins with a well-formed fragment: ';', alphabetic bytes, '='. *)
StartsWithFragment(s) ==
  /\ Len(s) >= 2
  /\ s[1] = SEMI
  /\ \E n \in 2..Len(s) : s[n] = EQ /\ \A i \in 2..(n - 1) : is_alphabetic(s[i])

(* C1: Display for NamedHeader writes the URI alone when display_name is
   absent, "name" <uri> when the name holds a space, "" <uri> when it is
   empty and name <uri> otherwise, followed by ;key=value once per entry
   of params, in some iteration order. *)
C1_NameForm(h, ut) ==
  CASE h.display_name = None -> ut
    [] h.display_name # None /\ (\E i \in 1..Len(h.display_name[1]) : h.display_name[1][i] = SP) ->
         << QUOTE >> \o h.display_name[1] \o << QUOTE, SP, LT >> \o ut \o << GT >>
    [] h.display_name = Some(<< >>) -> << QUOTE, QUOTE, SP, LT >> \o ut \o << GT >>
    [] OTHER -> h.display_name[1] \o << SP, LT >> \o ut \o << GT >>

C1_DisplayForms ==
  origin = "rendered" =>
    \E ut \in UriDisplay(hdr[1].uri), o \in Orders(hdr[1].params) :
       text = C1_NameForm(hdr[1], ut) \o FragmentsText(o)

C1_Witness ==
  /\ origin = "rendered"
  /\ hdr[1].display_name = Some(<< 97, SP, 98 >>)
  /\ Cardinality(hdr[1].params) = 2

(* C2: parsing the rendered text of a NamedHeader with at most one header
   parameter with parse_named_field_value and then
   parse_named_field_params succeeds, leaves nothing over, and gives back
   its display name, Uri and params. *)
C2_RoundTrip ==
  (origin = "rendered" /\ Cardinality(hdr[1].params) <= 1) =>
    /\ Returned("parse_named_field_value") =>
         ok /\ val = << hdr[1].display_name, hdr[1].uri >>
    /\ (Returned("parse_named_field_params") /\ nv # None) =>
         ok /\ cur = << >> /\ map = hdr[1].params
            /\ nv[1] = << hdr[1].display_name, hdr[1].uri >>

IsOctet(s) == Len(s) >= 1 /\ Len(s) <= 3 /\ (\A i \in 1..Len(s) : is_digit(s[i])) /\ DecVal(s) <= 255

Dots(s) == { i \in 1..Len(s) : s[i] = DOT }

(* The i-th smallest member of a set of numbers. *)
Nth(D, i) == CHOOSE p \in D : Cardinality({ q \in D : q < p }) = i - 1

(* s begins with four decimal octets separated by '.', the last one not
   followed by a further digit. *)
BeginsWithDottedQuad(s) ==
  /\ Cardinality(Dots(s)) >= 3
  /\ LET p1 == Nth(Dots(s), 1)
         p2 == Nth(Dots(s), 2)
         p3 == Nth(Dots(s), 3)
         e == p3 + RunLen(Digit, Drop(s, p3))
     IN /\ IsOctet(SubSeq(s, 1, p1 - 1))
        /\ IsOctet(SubSeq(s, p1 + 1, p2 - 1))
        /\ IsOctet(SubSeq(s, p2 + 1, p3 - 1))
        /\ IsOctet(SubSeq(s, p3 + 1, e))

(* s is four decimal octets separated by '.'. *)
IsDottedQuad(s) ==
  /\ Cardinality(Dots(s)) = 3
  /\ LET p1 == Nth(Dots(s), 1)
         p2 == Nth(Dots(s), 2)
         p3 == Nth(Dots(s), 3)
     IN /\ IsOctet(SubSeq(s, 1, p1 - 1))
        /\ IsOctet(SubSeq(s, p1 + 1, p2 - 1))
        /\ IsOctet(SubSeq(s, p2 + 1, p3 - 1))
        /\ IsOctet(SubSeq(s, p3 + 1, Len(s)))

IsDomainToken(s) == Len(s) >= 1 /\ \A i \in 1..Len(s) : is_domain_char(s[i])

C3_Body ==
  /\ ok
  /\ cur = << >>
  /\ val = hdr[1].uri
  /\ UriDisplay(val) = { text }

(* C3 as stated: parse_uri of the rendered text of any Uri with at most
   one parameter succeeds, returns an equal Uri, and that Uri renders to
   the same text. *)
C3_UriRoundTrip ==
  (origin = "uri_rendered" /\ Returned("parse_uri")) => C3_Body

(* C3 amended: the same for every such Uri whose host is a dotted quad or
   a domain name whose text does not begin with a dotted quad. *)
C3_UriRoundTripNamed ==
  (/\ origin = "uri_rendered"
   /\ Returned("parse_uri")
   /\ (hdr[1].uri.host.kind = "Domain" => ~BeginsWithDottedQuad(hdr[1].uri.host.name)))
    => C3_Body

C3_Witness ==
  /\ origin = "uri_rendered"
  /\ Returned("parse_uri")
  /\ ok
  /\ hdr[1].uri.auth # None /\ hdr[1].uri.auth[1].password # None
  /\ hdr[1].uri.host = Domain(<< 104, DOT, 99 >>, Some(8080))
  /\ hdr[1].uri.parameters = { ParamTransport("Udp") }
  /\ val = hdr[1].uri

HostText == Drop(arg, Len(SipTag) + 1)

(* The call at hand is parse_uri on sip: followed by host bytes only. *)
HostCall ==
  /\ origin = "wire"
  /\ Returned("parse_uri")
  /\ Len(arg) > 4
  /\ Take(arg, 4) = SipTag \o << COLON >>
  /\ \A i \in 5..Len(arg) : arg[i] \in { 51, DOT, 97 }

(* C4 as stated: a host text of four dotted decimal octets parses to the
   numeric variant, and every domain-label token that is not a dotted
   quad parses to the domain-name variant. *)
C4_HostAlternation ==
  HostCall =>
    /\ IsDottedQuad(HostText) => ok /\ val.host.kind = "Ipv4"
    /\ (IsDomainToken(HostText) /\ ~IsDottedQuad(HostText)) => ok /\ val.host.kind = "Domain"

(* C4 amended: a host text of four dotted decimal octets parses to the
   numeric variant with exactly those octets, and every domain-label
   token that does not begin with a dotted quad parses to the domain-name
   variant holding the whole token. *)
C4_HostAlternationPrefix ==
  HostCall =>
    /\ IsDottedQuad(HostText) =>
         ok /\ val.host.kind = "Ipv4" /\ RenderHost(val.host) = HostText /\ cur = << >>
    /\ (IsDomainToken(HostText) /\ ~BeginsWithDottedQuad(HostText)) =>
         ok /\ val.host = Domain(HostText, None) /\ cur = << >>

C4_Witness ==
  /\ origin = "wire"
  /\ Returned("parse_uri")
  /\ arg = SipTag \o << COLON, 51, DOT, 51, DOT, 51, DOT, 51 >>
  /\ ok
  /\ val.host = Ipv4(<< 3, 3, 3, 3 >>, None)

C5_Consumed ==
  (pc = "returned" /\ ok) =>
    /\ IsSuffix(cur, arg)
    /\ call = "parse_named_field_param" => arg = Fragment(val) \o cur
    /\ call = "parse_named_field_params" => arg = FragmentsText(consumed) \o cur
    /\ call = "parse_unquoted_string" => arg = val \o << SP >> \o cur

(* C5 as stated: the remainder of every successful parse is a suffix of
   its input and what was consumed followed by the remainder is the
   input; a well-formed URI text followed by one space leaves exactly
   that space. *)
C5_Remainder ==
  /\ C5_Consumed
  /\ (origin = "uri_framed" /\ Returned("parse_uri")) => ok /\ cur = << SP >>

(* C5 amended: the same, the URI text being that of a Uri whose host is a
   dotted quad or a domain name that does not begin with a dotted quad. *)
C5_RemainderNamed ==
  /\ C5_Consumed
  /\ (/\ origin = "uri_framed"
      /\ Returned("parse_uri")
      /\ hdr[1].uri.host.kind = "Domain" => ~BeginsWithDottedQuad(hdr[1].uri.host.name))
       => ok /\ val = hdr[1].uri /\ cur = << SP >>

C5_Witness ==
  /\ origin = "uri_framed"
  /\ Returned("parse_uri")
  /\ ok
  /\ val.auth # None
  /\ val.host.port = Some(8080)
  /\ val.parameters = { ParamTransport("Udp") }
  /\ cur = << SP >>

(* C6: parse_named_field_params never fails; it takes exactly the longest
   run of consecutive well-formed ;key=value fragments at the start of its
   input and leaves the input from the first fragment that does not
   parse, that fragment's ';' included. *)
C6_LenientLoop ==
  Returned("parse_named_field_params") =>
    /\ ok
    /\ arg = FragmentsText(consumed) \o cur
    /\ \A i \in 1..Len(consumed) :
         /\ \A j \in 1..Len(consumed[i][1]) : is_alphabetic(consumed[i][1][j])
         /\ \A j \in 1..Len(consumed[i][2]) : is_alphanumeric(consumed[i][2][j])
    /\ \A i \in 1..Len(consumed) :
         LET after == Drop(arg, Len(FragmentsText(SubSeq(consumed, 1, i)))) IN
           Len(after) = 0 \/ ~is_alphanumeric(after[1])
    /\ ~StartsWithFragment(cur)
    /\ { e[1] : e \in map } = { consumed[i][1] : i \in 1..Len(consumed) }
    /\ map \subseteq { consumed[i] : i \in 1..Len(consumed) }

C6_Witness ==
  /\ Returned("parse_named_field_params")
  /\ ok
  /\ Len(consumed) >= 1
  /\ Len(cur) >= 2 /\ cur[1] = SEMI

(* C7: parse_named_field_value fails exactly when the URI step fails: the
   display name, the spaces, '<' and '>' are each optional, a display
   name that matches neither form is None with nothing consumed, and a
   failed URI step yields an error and no value. *)
C7_ValueSteps ==
  Returned("parse_named_field_value") =>
    LET n == parse_name(arg)
        s0 == IF n.ok THEN n.rest ELSE arg
        s1 == Drop(s0, RunLen(Space, s0))
        s2 == IF Len(s1) > 0 /\ s1[1] = LT THEN Tail(s1) ELSE s1
        u == parse_uri(s2)
    IN /\ ok = u.ok
       /\ ok =>
            /\ val[1] = (IF n.ok THEN Some(n.val) ELSE None)
            /\ val[2] = u.val
            /\ cur = (IF Len(u.rest) > 0 /\ u.rest[1] = GT THEN Tail(u.rest) ELSE u.rest)
       /\ ~ok => val = << >> /\ cur = << >>

C7_Witness ==
  /\ Returned("parse_named_field_value")
  /\ ok
  /\ val[1] = None
  /\ Len(arg) > 0 /\ arg[1] = 115
  /\ cur = << >>

(* C8: the collection parse_named_field_params returns holds one entry per
   distinct key consumed, and the value of a key is that of the last
   consumed fragment with that key. *)
C8_LastParseWins ==
  Returned("parse_named_field_params") =>
    /\ \A e1, e2 \in map : e1[1] = e2[1] => e1 = e2
    /\ Cardinality(map) = Cardinality({ consumed[i][1] : i \in 1..Len(consumed) })
    /\ \A i \in 1..Len(consumed) :
         (\A j \in (i + 1)..Len(consumed) : consumed[j][1] # consumed[i][1])
           => consumed[i] \in map

C8_Witness ==
  /\ Returned("parse_named_field_params")
  /\ Len(consumed) = 3
  /\ consumed[1][1] = consumed[3][1]
  /\ consumed[1][2] # consumed[3][2]
  /\ consumed[3] \in map

(* C9: parse_unquoted_string succeeds exactly when the leading alphabetic
   run is followed by a space; the label is the run, the remainder starts
   after that one space; the run may be empty, so a field value that
   begins with a space has the display name Some(""). *)
C9_Unquoted ==
  /\ Returned("parse_unquoted_string") =>
       LET n == RunLen(Alphabetic, arg) IN
         /\ ok = (n < Len(arg) /\ arg[n + 1] = SP)
         /\ ok => val = Take(arg, n) /\ cur = Drop(arg, n + 1)
  /\ (Returned("parse_named_field_value") /\ ok /\ Len(arg) > 0 /\ arg[1] = SP)
       => val[1] = Some(<< >>)

C9_Witness ==
  /\ Returned("parse_named_field_value")
  /\ ok
  /\ arg[1] = SP
  /\ val[1] = Some(<< >>)

(* C10: the loop of parse_named_field_params ends on every input: each
   iteration shortens the remaining input by at least two bytes, so there
   are at most half as many iterations as input bytes, and a failed
   attempt is followed by the return. *)
C10_Terminates ==
  /\ [][ParamsIter => Len(cur') + 2 <= Len(cur)]_vars
  /\ [](call = "parse_named_field_params" => 2 * iters <= Len(arg))
  /\ [](pc = "loop" => <>(pc = "returned"))

C10_Witness ==
  /\ Returned("parse_named_field_params")
  /\ iters = 2
  /\ Len(arg) = 4

====
